---- MODULE Spec2Model ----
(***************************************************************************)
(* Graph construction of the two model builders of the repository:         *)
(*   baselines/cifar10/batchensemble_model.py  (ensemble_resnet_layer,      *)
(*                                              ensemble_resnet_v1)         *)
(*   baselines/imagenet/deterministic_model.py (identity_block, conv_block, *)
(*                                              resnet50)                   *)
(* The graph under construction is the sequence `layers`; a tensor is the   *)
(* index of the layer that produced it.  Every layer record carries its     *)
(* kind, the tensors it consumes, its output shape (without the batch       *)
(* dimension, in the layout of the image data format) and the arguments     *)
(* the code passed to its constructor.                                      *)
(* Numbers that are floats in the code (random_sign_init, dropout_rate,     *)
(* mean, stddev) are counted in tenths.                                     *)
(***************************************************************************)
EXTENDS Integers, Sequences, FiniteSets, TLC

VARIABLES
  pc,                \* position of the running builder
  args,              \* the arguments of the call being modelled
  image_data_format, \* tf.keras.backend.image_data_format()
  layers,            \* the graph built so far
  x,                 \* the local x of the builder (a tensor)
  inputs,            \* the Input tensor of the builder (inputs / img_input)
  filters,           \* ensemble_resnet_v1: local filters
  num_res_blocks,    \* ensemble_resnet_v1: local num_res_blocks
  alpha_initializer, \* ensemble_resnet_v1: local alpha_initializer
  gamma_initializer, \* ensemble_resnet_v1: local gamma_initializer
  stack,             \* ensemble_resnet_v1: loop variable stack
  res_block,         \* ensemble_resnet_v1: loop variable res_block
  blocks,            \* log of the residual blocks built, in order
  error,             \* the exception raised, "none" if none
  model              \* the returned model, NoModel until the builder returns

vars == <<pc, args, image_data_format, layers, x, inputs, filters,
          num_res_blocks, alpha_initializer, gamma_initializer, stack,
          res_block, blocks, error, model>>

----------------------------------------------------------------------------
(* Bounds of the model.                                                     *)

MaxDepth == 20
MaxWidth == 2
MaxModels == 4
MaxRsi == 5
MaxDropout == 1
MaxSize == 32
MaxClasses == 4
MaxBlockSize == 4
MaxChannels == 2
MaxFilters == 2

Depths == (0 - 4)..MaxDepth
WidthMultipliers == {1, MaxWidth}
NumModels == {1, MaxModels}
RandomSignInits == {0 - MaxRsi, 0, MaxRsi}
DropoutRates == {0 - 1, 0, MaxDropout}
ImageSizes == {1, 2, MaxSize - 2, MaxSize - 1, MaxSize}
NumClasses == (1..MaxClasses) \cup {1000}

----------------------------------------------------------------------------
(* Values shared by both builders.                                          *)

NoModel == [inputs |-> 0, outputs |-> 0]
NoInitializer == [name |-> "none", probs |-> 0, mean |-> 0, stddev |-> 0]
DataFormats == {"channels_last", "channels_first"}

\* A shape is a tuple of dimensions without the batch dimension.
ImageShape(h, w, c, df) ==
  IF df = "channels_last" THEN <<h, w, c>> ELSE <<c, h, w>>

Height(shape, df) == IF df = "channels_last" THEN shape[1] ELSE shape[2]
Width(shape, df) == IF df = "channels_last" THEN shape[2] ELSE shape[3]
Channels(shape, df) == IF df = "channels_last" THEN shape[3] ELSE shape[1]

\* Output length of a convolution or pooling window along one dimension.
ConvOutputLength(n, k, padding, stride) ==
  LET len == IF padding = "same" THEN n ELSE n - k + 1
  IN  (len + stride - 1) \div stride

\* Output shape of a 2D convolution / pooling with kernel <<kh, kw>>.
WindowShape(shape, c, kernel, strides, padding, df) ==
  ImageShape(ConvOutputLength(Height(shape, df), kernel[1], padding, strides[1]),
             ConvOutputLength(Width(shape, df), kernel[2], padding, strides[2]),
             c, df)

ShapeOk(shape) == \A i \in 1..Len(shape) : shape[i] >= 1

\* An int argument for kernel_size / strides / pool_size means the pair.
Pair(n) == <<n, n>>

ShapeOf(g, t) == g[t].shape

----------------------------------------------------------------------------
(* Layer constructors: the record a layer call appends to the graph.  t is  *)
(* the tensor consumed and s its shape.                                     *)

InputLayer(shape) ==
  [kind |-> "Input", inputs |-> <<>>, shape |-> shape]

DropoutLayer(t, s, rate) ==
  [kind |-> "Dropout", inputs |-> <<t>>, shape |-> s,
   rate |-> rate, training |-> TRUE]

BatchEnsembleConv2DLayer(t, s, f, kernel_size, strides, inits, m, df) ==
  [kind |-> "BatchEnsembleConv2D", inputs |-> <<t>>,
   shape |-> WindowShape(s, f, Pair(kernel_size), Pair(strides), "same", df),
   filters |-> f, kernel_size |-> Pair(kernel_size), strides |-> Pair(strides),
   padding |-> "same", use_bias |-> FALSE,
   alpha_initializer |-> inits.alpha, gamma_initializer |-> inits.gamma,
   num_models |-> m]

BatchNormalizationLayer(t, s, axis, name) ==
  [kind |-> "BatchNormalization", inputs |-> <<t>>, shape |-> s,
   axis |-> axis, name |-> name]

ActivationLayer(t, s, activation) ==
  [kind |-> "Activation", inputs |-> <<t>>, shape |-> s,
   activation |-> activation]

\* tf.keras.layers.add of two tensors of equal rank: a dimension of size 1
\* is broadcast to the other operand's, any other mismatch is an error
\* (a dimension of 0 in the result marks it).
ElemwiseShape(s1, s2) ==
  [i \in 1..Len(s1) |->
     IF s1[i] = 1 THEN s2[i]
     ELSE IF s2[i] = 1 THEN s1[i]
     ELSE IF s1[i] = s2[i] THEN s1[i]
     ELSE 0]

AddLayer(g, a, b) ==
  [kind |-> "Add", inputs |-> <<a, b>>,
   shape |-> ElemwiseShape(ShapeOf(g, a), ShapeOf(g, b))]

\* x = tf.keras.layers.add([a, b]); x = Activation('relu')(x)
AddRelu(g, a, b) ==
  <<AddLayer(g, a, b),
    ActivationLayer(Len(g) + 1, ElemwiseShape(ShapeOf(g, a), ShapeOf(g, b)), "relu")>>

----------------------------------------------------------------------------
(* baselines/cifar10/batchensemble_model.py                                 *)

NormalMean == 10
BaseFilters == 16
DefaultKernelSize == 3
DefaultStrides == 1
DefaultDropoutRate == 0
PoolSize == 8
NumStacks == 3
InputChannels == 3

RandomSign(p) ==
  [name |-> "RandomSign", probs |-> p, mean |-> 0, stddev |-> 0]

RandomNormal(mean, stddev) ==
  [name |-> "RandomNormal", probs |-> 0, mean |-> mean, stddev |-> stddev]

\* ensemble_resnet_layer, lines 56-63.
LayerInitializers(random_sign_init) ==
  IF random_sign_init > 0
    THEN [alpha |-> RandomSign(random_sign_init),
          gamma |-> RandomSign(random_sign_init)]
    ELSE [alpha |-> RandomNormal(NormalMean, 0 - random_sign_init),
          gamma |-> RandomNormal(NormalMean, 0 - random_sign_init)]

\* The optional dropout, testing dropout_rate != 0 instead of > 0.
LayerDropoutNonZero(t, s, dropout_rate) ==
  IF dropout_rate # 0 THEN <<DropoutLayer(t, s, dropout_rate)>> ELSE <<>>

\* ensemble_resnet_layer, lines 65-67: the optional dropout.
LayerDropout(t, s, dropout_rate) ==
  IF dropout_rate > 0 THEN <<DropoutLayer(t, s, dropout_rate)>> ELSE <<>>

\* ensemble_resnet_layer, lines 82-83: the optional activation.
LayerActivation(t, s, activation) ==
  IF activation # "none" THEN <<ActivationLayer(t, s, activation)>> ELSE <<>>

\* ensemble_resnet_layer, lines 68-81: the ensemble convolution; n is the
\* number of layers of the graph before the call, t the input tensor of
\* the call, s its shape.
LayerConv(n, t, s, f, kernel_size, strides, m, random_sign_init, dropout_rate, df) ==
  BatchEnsembleConv2DLayer(IF dropout_rate > 0 THEN n + 1 ELSE t, s, f, kernel_size, strides, LayerInitializers(random_sign_init), m, df)

\* ensemble_resnet_layer: the graph after the call; the tensor returned is
\* the one produced by the last layer of that graph.
EnsembleResnetLayer(g, t, f, kernel_size, strides, m, random_sign_init, activation, dropout_rate, df) ==
  LET drop == LayerDropout(t, ShapeOf(g, t), dropout_rate)
      conv == LayerConv(Len(g), t, ShapeOf(g, t), f, kernel_size, strides, m,
                        random_sign_init, dropout_rate, df)
      nc == Len(g) + Len(drop) + 1
  IN  g \o drop
        \o <<conv, BatchNormalizationLayer(nc, conv.shape, 0 - 1, <<>>)>>
        \o LayerActivation(nc + 1, conv.shape, activation)

\* The selection of lines 115-122, testing >= 0 instead of > 0.
BuilderInitializersNonNegative(random_sign_init) ==
  IF random_sign_init >= 0
    THEN [alpha |-> RandomSign(random_sign_init),
          gamma |-> RandomSign(random_sign_init)]
    ELSE [alpha |-> RandomNormal(NormalMean, 0 - random_sign_init),
          gamma |-> RandomNormal(NormalMean, 0 - random_sign_init)]

\* ensemble_resnet_v1, lines 115-122.
BuilderInitializers(random_sign_init) ==
  IF random_sign_init > 0
    THEN [alpha |-> RandomSign(random_sign_init),
          gamma |-> RandomSign(random_sign_init)]
    ELSE [alpha |-> RandomNormal(NormalMean, 0 - random_sign_init),
          gamma |-> RandomNormal(NormalMean, 0 - random_sign_init)]

\* The depth check taken modulo 3.
DepthRejectedModulo3(depth) == (depth - 2) % 3 # 0

\* ensemble_resnet_v1, line 110: the condition under which ValueError is raised.
DepthRejected(depth) == (depth - 2) % 6 # 0

\* num_res_blocks with the divisor 3.
NumResBlocksDividedBy3(depth) == (depth - 2) \div 3

\* ensemble_resnet_v1, line 113: int((depth - 2) / 6), int() truncating
\* towards zero.
NumResBlocks(depth) ==
  IF depth - 2 >= 0 THEN (depth - 2) \div 6 ELSE 0 - ((2 - depth) \div 6)

\* ensemble_resnet_v1, lines 132-134 and 149.
BlockStrides(s, b) == IF s > 0 /\ b = 0 THEN 2 ELSE 1
BlockProjects(s, b) == s > 0 /\ b = 0

AveragePooling2DLayer(t, s, pool_size, df) ==
  [kind |-> "AveragePooling2D", inputs |-> <<t>>,
   shape |-> WindowShape(s, Channels(s, df), Pair(pool_size),
                         Pair(pool_size), "valid", df),
   pool_size |-> Pair(pool_size), strides |-> Pair(pool_size),
   padding |-> "valid"]

FlattenLayer(t, s) ==
  [kind |-> "Flatten", inputs |-> <<t>>, shape |-> <<s[1] * s[2] * s[3]>>]

BatchEnsembleDenseLayer(t, units, alpha, gamma, m) ==
  [kind |-> "BatchEnsembleDense", inputs |-> <<t>>, shape |-> <<units>>,
   units |-> units, activation |-> "none",
   alpha_initializer |-> alpha, gamma_initializer |-> gamma,
   num_models |-> m]

\* ensemble_resnet_v1, lines 168-169: the optional dropout of the tail.
TailDropout(t, s, dropout_rate) ==
  IF dropout_rate > 0 THEN <<DropoutLayer(t, s, dropout_rate)>> ELSE <<>>

\* ensemble_resnet_v1, lines 135-141: the first layer of a residual block.
BlockFirst(g, t, f, s, b, m, random_sign_init, dropout_rate, df) ==
  EnsembleResnetLayer(g, t, f, DefaultKernelSize, BlockStrides(s, b), m, random_sign_init, "relu", dropout_rate, df)

\* ensemble_resnet_v1, lines 142-148: the second layer of a residual block.
BlockSecond(g, y, f, m, random_sign_init, dropout_rate, df) ==
  EnsembleResnetLayer(g, y, f, DefaultKernelSize, DefaultStrides, m, random_sign_init, "none", dropout_rate, df)

\* The projection shortcut with the default 3x3 kernel.
BlockShortcutKernel3(g, t, f, s, b, m, random_sign_init, dropout_rate, df) ==
  IF BlockProjects(s, b)
    THEN EnsembleResnetLayer(g, t, f, DefaultKernelSize, BlockStrides(s, b),
                             m, random_sign_init, "none", dropout_rate, df)
    ELSE g

\* The projection shortcut left at the default num_models = 1.
BlockShortcutDefaultModels(g, t, f, s, b, m, random_sign_init, dropout_rate, df) ==
  IF BlockProjects(s, b)
    THEN EnsembleResnetLayer(g, t, f, 1, BlockStrides(s, b), 1,
                             random_sign_init, "none", dropout_rate, df)
    ELSE g

\* The projection shortcut without the strides of the block.
BlockShortcutUnstrided(g, t, f, s, b, m, random_sign_init, dropout_rate, df) ==
  IF BlockProjects(s, b)
    THEN EnsembleResnetLayer(g, t, f, 1, DefaultStrides, m,
                             random_sign_init, "none", dropout_rate, df)
    ELSE g

\* ensemble_resnet_v1, lines 149-160: the projection shortcut, built only
\* for the first block of a stack other than the first.
BlockShortcut(g, t, f, s, b, m, random_sign_init, dropout_rate, df) ==
  IF BlockProjects(s, b)
    THEN EnsembleResnetLayer(g, t, f, 1, BlockStrides(s, b), m,
                             random_sign_init, "none", dropout_rate, df)
    ELSE g

EnsembleArgs(df) ==
  [fn : {"ensemble_resnet_v1"},
   input_shape : {ImageShape(h, w, InputChannels, df) :
                    h \in ImageSizes, w \in ImageSizes},
   depth : Depths, num_classes : {1, MaxClasses},
   width_multiplier : WidthMultipliers, num_models : NumModels,
   random_sign_init : RandomSignInits, dropout_rate : DropoutRates]

NoArgs == [fn |-> "none"]

Init ==
  /\ pc = "idle"
  /\ args = NoArgs
  /\ image_data_format \in DataFormats
  /\ layers = <<>>
  /\ x = 0
  /\ inputs = 0
  /\ filters = 0
  /\ num_res_blocks = 0
  /\ alpha_initializer = NoInitializer
  /\ gamma_initializer = NoInitializer
  /\ stack = 0
  /\ res_block = 0
  /\ blocks = <<>>
  /\ error = "none"
  /\ model = NoModel

\* A call of ensemble_resnet_v1.
CallEnsembleResnetV1 ==
  /\ pc = "idle"
  /\ args' \in EnsembleArgs(image_data_format)
  /\ pc' = "start"
  /\ UNCHANGED <<image_data_format, layers, x, inputs, filters,
                 num_res_blocks, alpha_initializer, gamma_initializer, stack,
                 res_block, blocks, error, model>>

\* Lines 110-122: the depth check, then filters, num_res_blocks and the
\* initializers of the dense head.
CheckDepth ==
  /\ pc = "start"
  /\ args.fn = "ensemble_resnet_v1"
  /\ IF DepthRejected(args.depth)
       THEN /\ pc' = "error"
            /\ error' = "ValueError: depth should be 6n+2"
            /\ UNCHANGED <<filters, num_res_blocks, alpha_initializer,
                           gamma_initializer>>
       ELSE /\ pc' = "stem"
            /\ filters' = BaseFilters * args.width_multiplier
            /\ num_res_blocks' = NumResBlocks(args.depth)
            /\ alpha_initializer' = BuilderInitializers(args.random_sign_init).alpha
            /\ gamma_initializer' = BuilderInitializers(args.random_sign_init).gamma
            /\ error' = error
  /\ UNCHANGED <<args, image_data_format, layers, x, inputs, stack,
                 res_block, blocks, model>>

\* Lines 124-129: the Input tensor and the stem layer.
StemGraph(shape, f, m, random_sign_init, df) ==
  EnsembleResnetLayer(<<InputLayer(shape)>>, 1, f, DefaultKernelSize, DefaultStrides, m, random_sign_init, "relu", DefaultDropoutRate, df)

Stem ==
  /\ pc = "stem"
  /\ \E g \in {StemGraph(args.input_shape, filters, args.num_models,
                         args.random_sign_init, image_data_format)} :
       /\ layers' = g
       /\ x' = Len(g)
  /\ inputs' = 1
  /\ stack' = 0
  /\ res_block' = 0
  /\ pc' = "loop"
  /\ UNCHANGED <<args, image_data_format, filters, num_res_blocks,
                 alpha_initializer, gamma_initializer, blocks, error, model>>

\* Lines 131-162: one iteration of the inner loop, a residual block.
ResBlock ==
  /\ pc = "loop"
  /\ stack < NumStacks
  /\ res_block < num_res_blocks
  /\ \E g1 \in {BlockFirst(layers, x, filters, stack, res_block,
                           args.num_models, args.random_sign_init,
                           args.dropout_rate, image_data_format)} :
     \E g2 \in {BlockSecond(g1, Len(g1), filters, args.num_models,
                            args.random_sign_init, args.dropout_rate,
                            image_data_format)} :
     \E g3 \in {BlockShortcut(g2, x, filters, stack, res_block,
                              args.num_models, args.random_sign_init,
                              args.dropout_rate, image_data_format)} :
     \E shortcut \in {IF Len(g3) > Len(g2) THEN Len(g3) ELSE x} :
     \E tail \in {AddRelu(g3, shortcut, Len(g2))} :
       IF ShapeOk(tail[1].shape)
         THEN /\ layers' = g3 \o tail
              /\ x' = Len(g3) + 2
              /\ res_block' = res_block + 1
              /\ blocks' = Append(blocks,
                   [fn |-> "residual", stack |-> stack,
                    res_block |-> res_block,
                    filters |-> filters, input |-> x,
                    first |-> Len(g1), y |-> Len(g2),
                    shortcut |-> shortcut, add |-> Len(g3) + 1,
                    out |-> Len(g3) + 2])
              /\ UNCHANGED <<pc, error>>
         ELSE /\ layers' = g3
              /\ pc' = "error"
              /\ error' = "ValueError: add of incompatible shapes"
              /\ UNCHANGED <<x, res_block, blocks>>
  /\ UNCHANGED <<args, image_data_format, inputs, filters, num_res_blocks,
                 alpha_initializer, gamma_initializer, stack, model>>

\* Line 163, at the end of the inner loop: filters *= 2, next stack.
NextStack ==
  /\ pc = "loop"
  /\ stack < NumStacks
  /\ res_block >= num_res_blocks
  /\ filters' = filters * 2
  /\ stack' = stack + 1
  /\ res_block' = 0
  /\ UNCHANGED <<pc, args, image_data_format, layers, x, inputs,
                 num_res_blocks, alpha_initializer, gamma_initializer,
                 blocks, error, model>>

\* Lines 166-180: average pooling, flatten, optional dropout, dense head.
Classifier ==
  /\ pc = "loop"
  /\ stack = NumStacks
  /\ \E pool \in {AveragePooling2DLayer(x, ShapeOf(layers, x), PoolSize,
                                        image_data_format)} :
     \E flat \in {FlattenLayer(Len(layers) + 1, pool.shape)} :
     \E drop \in {TailDropout(Len(layers) + 2, flat.shape,
                              args.dropout_rate)} :
     \E dense \in {BatchEnsembleDenseLayer(Len(layers) + 2 + Len(drop),
                     args.num_classes, alpha_initializer, gamma_initializer,
                     args.num_models)} :
       IF ShapeOk(pool.shape)
         THEN /\ layers' = layers \o <<pool, flat>> \o drop \o <<dense>>
              /\ x' = Len(layers) + 3 + Len(drop)
              /\ model' = [inputs |-> inputs,
                           outputs |-> Len(layers) + 3 + Len(drop)]
              /\ pc' = "done"
              /\ error' = error
         ELSE /\ pc' = "error"
              /\ error' = "ValueError: negative dimension size in pooling"
              /\ UNCHANGED <<layers, x, model>>
  /\ UNCHANGED <<args, image_data_format, inputs, filters, num_res_blocks,
                 alpha_initializer, gamma_initializer, stack, res_block,
                 blocks>>

NextEnsemble == CallEnsembleResnetV1 \/ CheckDepth \/ Stem \/ ResBlock \/ NextStack \/ Classifier

SpecEnsemble == Init /\ [][NextEnsemble]_vars

----------------------------------------------------------------------------
(* baselines/imagenet/deterministic_model.py                                *)

ImageNetSize == 224
StemFilters == 64
StemKernel == 7
DefaultBlockStride == 2

BnAxis(df) == IF df = "channels_last" THEN 3 ELSE 1

Conv2DLayer(t, s, f, kernel, strides, padding, name, df) ==
  [kind |-> "Conv2D", inputs |-> <<t>>,
   shape |-> WindowShape(s, f, kernel, strides, padding, df),
   filters |-> f, kernel_size |-> kernel, strides |-> strides,
   padding |-> padding, use_bias |-> FALSE, name |-> name]

\* The main path with the strides at the first 1x1 convolution.
MainPathV1(n, t, s, kernel_size, fs, strides, stage, block, df) ==
  LET a == Conv2DLayer(t, s, fs[1], <<1, 1>>, strides, "valid",
                       <<"res", stage, block, "_branch", "2a">>, df)
      b == Conv2DLayer(n + 3, a.shape, fs[2], Pair(kernel_size), <<1, 1>>, "same",
                       <<"res", stage, block, "_branch", "2b">>, df)
      c == Conv2DLayer(n + 6, b.shape, fs[3], <<1, 1>>, <<1, 1>>, "valid",
                       <<"res", stage, block, "_branch", "2c">>, df)
  IN  << a,
         BatchNormalizationLayer(n + 1, a.shape, BnAxis(df),
                                 <<"bn", stage, block, "_branch", "2a">>),
         ActivationLayer(n + 2, a.shape, "relu"),
         b,
         BatchNormalizationLayer(n + 4, b.shape, BnAxis(df),
                                 <<"bn", stage, block, "_branch", "2b">>),
         ActivationLayer(n + 5, b.shape, "relu"),
         c,
         BatchNormalizationLayer(n + 7, c.shape, BnAxis(df),
                                 <<"bn", stage, block, "_branch", "2c">>) >>

\* The layers of the main path shared by identity_block (lines 61-95) and
\* conv_block (lines 133-168): 1x1 conv, kernel_size conv carrying the
\* strides, 1x1 conv, each followed by batch normalization and the first
\* two by relu.  n is the number of layers before the call.
MainPath(n, t, s, kernel_size, fs, strides, stage, block, df) ==
  LET a == Conv2DLayer(t, s, fs[1], <<1, 1>>, <<1, 1>>, "valid",
                       <<"res", stage, block, "_branch", "2a">>, df)
      b == Conv2DLayer(n + 3, a.shape, fs[2], Pair(kernel_size), strides, "same",
                       <<"res", stage, block, "_branch", "2b">>, df)
      c == Conv2DLayer(n + 6, b.shape, fs[3], <<1, 1>>, <<1, 1>>, "valid",
                       <<"res", stage, block, "_branch", "2c">>, df)
  IN  << a,
         BatchNormalizationLayer(n + 1, a.shape, BnAxis(df),
                                 <<"bn", stage, block, "_branch", "2a">>),
         ActivationLayer(n + 2, a.shape, "relu"),
         b,
         BatchNormalizationLayer(n + 4, b.shape, BnAxis(df),
                                 <<"bn", stage, block, "_branch", "2b">>),
         ActivationLayer(n + 5, b.shape, "relu"),
         c,
         BatchNormalizationLayer(n + 7, c.shape, BnAxis(df),
                                 <<"bn", stage, block, "_branch", "2c">>) >>

\* conv_block, lines 170-180: the projection shortcut.
ShortcutPath(n, t, s, fs, strides, stage, block, df) ==
  LET sc == Conv2DLayer(t, s, fs[3], <<1, 1>>, strides, "valid",
                        <<"res", stage, block, "_branch", "1">>, df)
  IN  << sc,
         BatchNormalizationLayer(n + 1, sc.shape, BnAxis(df),
                                 <<"bn", stage, block, "_branch", "1">>) >>

\* identity_block with a strided middle convolution.
IdentityBlockBodyStrided(g, input_tensor, kernel_size, fs, stage, block, df) ==
  g \o MainPath(Len(g), input_tensor, ShapeOf(g, input_tensor), kernel_size, fs, <<2, 2>>, stage, block, df)

\* identity_block: the graph up to the add; the add is of the main path
\* (tensor Len(graph)) and input_tensor.
IdentityBlockBody(g, input_tensor, kernel_size, fs, stage, block, df) ==
  g \o MainPath(Len(g), input_tensor, ShapeOf(g, input_tensor), kernel_size, fs, <<1, 1>>, stage, block, df)

\* conv_block: the graph up to the add; the add is of the main path
\* (tensor Len(graph) - 2) and the shortcut (tensor Len(graph)).
ConvBlockBody(g, input_tensor, kernel_size, fs, stage, block, strides, df) ==
  g \o MainPath(Len(g), input_tensor, ShapeOf(g, input_tensor), kernel_size, fs, strides, stage, block, df)
    \o ShortcutPath(Len(g) + 8, input_tensor, ShapeOf(g, input_tensor), fs, strides, stage, block, df)

\* identity_block, lines 97-99, and conv_block, lines 182-184.
IdentityBlockOperands(body, input_tensor) == <<Len(body), input_tensor>>
ConvBlockOperands(body) == <<Len(body) - 2, Len(body)>>

ZeroPadding2DLayer(t, s, padding, df) ==
  [kind |-> "ZeroPadding2D", inputs |-> <<t>>,
   shape |-> ImageShape(Height(s, df) + 2 * padding[1],
                        Width(s, df) + 2 * padding[2], Channels(s, df), df),
   padding |-> padding, name |-> <<"conv1_pad">>]

MaxPooling2DLayer(t, s, pool_size, strides, padding, df) ==
  [kind |-> "MaxPooling2D", inputs |-> <<t>>,
   shape |-> WindowShape(s, Channels(s, df), pool_size, strides, padding, df),
   pool_size |-> pool_size, strides |-> strides, padding |-> padding]

GlobalAveragePooling2DLayer(t, s, df) ==
  [kind |-> "GlobalAveragePooling2D", inputs |-> <<t>>,
   shape |-> <<Channels(s, df)>>, name |-> <<"avg_pool">>]

DenseLayer(t, units) ==
  [kind |-> "Dense", inputs |-> <<t>>, shape |-> <<units>>,
   units |-> units, activation |-> "softmax", name |-> <<"fc1000">>]

\* A conv_block call that keeps the default strides (2, 2).
CBAlwaysStrided(fs, stage, block, strides) ==
  [fn |-> "conv_block", filters |-> fs, stage |-> stage, block |-> block,
   strides |-> <<2, 2>>]

\* resnet50, lines 220-238: the sixteen block calls in order.
CB(fs, stage, block, strides) ==
  [fn |-> "conv_block", filters |-> fs, stage |-> stage, block |-> block,
   strides |-> strides]
IB(fs, stage, block) ==
  [fn |-> "identity_block", filters |-> fs, stage |-> stage,
   block |-> block, strides |-> <<1, 1>>]

Resnet50Plan ==
  << CB(<<64, 64, 256>>, 2, "a", <<1, 1>>),
     IB(<<64, 64, 256>>, 2, "b"),
     IB(<<64, 64, 256>>, 2, "c"),
     CB(<<128, 128, 512>>, 3, "a", Pair(DefaultBlockStride)),
     IB(<<128, 128, 512>>, 3, "b"),
     IB(<<128, 128, 512>>, 3, "c"),
     IB(<<128, 128, 512>>, 3, "d"),
     CB(<<256, 256, 1024>>, 4, "a", Pair(DefaultBlockStride)),
     IB(<<256, 256, 1024>>, 4, "b"),
     IB(<<256, 256, 1024>>, 4, "c"),
     IB(<<256, 256, 1024>>, 4, "d"),
     IB(<<256, 256, 1024>>, 4, "e"),
     IB(<<256, 256, 1024>>, 4, "f"),
     CB(<<512, 512, 2048>>, 5, "a", Pair(DefaultBlockStride)),
     IB(<<512, 512, 2048>>, 5, "b"),
     IB(<<512, 512, 2048>>, 5, "c") >>

\* resnet50, lines 196-218: input, zero padding, 7x7 convolution, batch
\* normalization, relu and max pooling.
Resnet50Stem(df) ==
  LET inp == InputLayer(ImageShape(ImageNetSize, ImageNetSize, InputChannels, df))
      pad == ZeroPadding2DLayer(1, inp.shape, <<3, 3>>, df)
      conv == Conv2DLayer(2, pad.shape, StemFilters, Pair(StemKernel),
                          <<2, 2>>, "valid", <<"conv1">>, df)
  IN  << inp, pad, conv,
         BatchNormalizationLayer(3, conv.shape, BnAxis(df), <<"bn_conv1">>),
         ActivationLayer(4, conv.shape, "relu"),
         MaxPooling2DLayer(5, conv.shape, <<3, 3>>, <<2, 2>>, "same", df) >>

CallResnet50 ==
  /\ pc = "idle"
  /\ args' \in [fn : {"resnet50"}, num_classes : NumClasses]
  /\ pc' = "start"
  /\ UNCHANGED <<image_data_format, layers, x, inputs, filters,
                 num_res_blocks, alpha_initializer, gamma_initializer, stack,
                 res_block, blocks, error, model>>

Resnet50Input ==
  /\ pc = "start"
  /\ args.fn = "resnet50"
  /\ layers' = Resnet50Stem(image_data_format)
  /\ inputs' = 1
  /\ x' = 6
  /\ pc' = "blocks"
  /\ UNCHANGED <<args, image_data_format, filters, num_res_blocks,
                 alpha_initializer, gamma_initializer, stack, res_block,
                 blocks, error, model>>

\* The add and relu that end a block, or the error the add raises.
FinishBlock(body, operands, call, input, next) ==
  \E tail \in {AddRelu(body, operands[1], operands[2])} :
    IF ShapeOk(tail[1].shape)
      THEN /\ layers' = body \o tail
           /\ x' = Len(body) + 2
           /\ blocks' = Append(blocks,
                [fn |-> call.fn, stage |-> call.stage, block |-> call.block,
                 filters |-> call.filters, strides |-> call.strides,
                 input |-> input, y |-> operands[1],
                 shortcut |-> operands[2],
                 add |-> Len(body) + 1, out |-> Len(body) + 2])
           /\ pc' = next
           /\ error' = error
      ELSE /\ layers' = body
           /\ pc' = "error"
           /\ error' = "ValueError: add of incompatible shapes"
           /\ UNCHANGED <<x, blocks>>

\* One conv_block call of lines 220-238.
Resnet50ConvBlock ==
  /\ pc = "blocks"
  /\ Len(blocks) < Len(Resnet50Plan)
  /\ \E call \in {Resnet50Plan[Len(blocks) + 1]} :
       /\ call.fn = "conv_block"
       /\ \E body \in {ConvBlockBody(layers, x, 3, call.filters, call.stage,
                         call.block, call.strides, image_data_format)} :
            FinishBlock(body, ConvBlockOperands(body), call, x, pc)
  /\ UNCHANGED <<args, image_data_format, inputs, filters, num_res_blocks,
                 alpha_initializer, gamma_initializer, stack, res_block,
                 model>>

\* One identity_block call of lines 220-238.
Resnet50IdentityBlock ==
  /\ pc = "blocks"
  /\ Len(blocks) < Len(Resnet50Plan)
  /\ \E call \in {Resnet50Plan[Len(blocks) + 1]} :
       /\ call.fn = "identity_block"
       /\ \E body \in {IdentityBlockBody(layers, x, 3, call.filters,
                         call.stage, call.block, image_data_format)} :
            FinishBlock(body, IdentityBlockOperands(body, x), call, x, pc)
  /\ UNCHANGED <<args, image_data_format, inputs, filters, num_res_blocks,
                 alpha_initializer, gamma_initializer, stack, res_block,
                 model>>

\* resnet50, lines 240-246: global average pooling, dense softmax, Model.
Resnet50Classifier ==
  /\ pc = "blocks"
  /\ Len(blocks) = Len(Resnet50Plan)
  /\ layers' = layers \o
       << GlobalAveragePooling2DLayer(x, ShapeOf(layers, x), image_data_format),
          DenseLayer(Len(layers) + 1, args.num_classes) >>
  /\ x' = Len(layers) + 2
  /\ model' = [inputs |-> inputs, outputs |-> Len(layers) + 2]
  /\ pc' = "done"
  /\ UNCHANGED <<args, image_data_format, inputs, filters, num_res_blocks,
                 alpha_initializer, gamma_initializer, stack, res_block,
                 blocks, error>>

NextResnet50 ==
  \/ CallResnet50
  \/ Resnet50Input
  \/ Resnet50ConvBlock
  \/ Resnet50IdentityBlock
  \/ Resnet50Classifier

SpecResnet50 == Init /\ [][NextResnet50]_vars

----------------------------------------------------------------------------
(* identity_block and conv_block called on their own, on an input tensor    *)
(* of any shape.                                                            *)

BlockInputShapes(df) ==
  {ImageShape(h, w, c, df) :
     h \in 1..MaxBlockSize, w \in 1..MaxBlockSize, c \in 1..MaxChannels}
FilterLists ==
  {<<f1, f2, f3>> : f1 \in 1..MaxFilters, f2 \in 1..MaxFilters,
                    f3 \in 1..MaxFilters}
KernelSizes == {1, 3}
StrideArgs == {<<1, 1>>, <<1, 2>>, <<2, 1>>, <<2, 2>>}

CallIdentityBlock ==
  /\ pc = "idle"
  /\ \E shape \in BlockInputShapes(image_data_format), k \in KernelSizes,
        fs \in FilterLists :
       /\ args' = [fn |-> "identity_block", input_shape |-> shape,
                   kernel_size |-> k, filters |-> fs, stage |-> 2,
                   block |-> "a", strides |-> <<1, 1>>]
       /\ \E body \in {IdentityBlockBody(<<InputLayer(shape)>>, 1, k, fs, 2,
                                         "a", image_data_format)} :
            FinishBlock(body, IdentityBlockOperands(body, 1), args', 1, "done")
  /\ inputs' = 1
  /\ UNCHANGED <<image_data_format, filters, num_res_blocks,
                 alpha_initializer, gamma_initializer, stack, res_block,
                 model>>

CallConvBlock ==
  /\ pc = "idle"
  /\ \E shape \in BlockInputShapes(image_data_format), k \in KernelSizes,
        fs \in FilterLists, strides \in StrideArgs :
       /\ args' = [fn |-> "conv_block", input_shape |-> shape,
                   kernel_size |-> k, filters |-> fs, stage |-> 2,
                   block |-> "a", strides |-> strides]
       /\ \E body \in {ConvBlockBody(<<InputLayer(shape)>>, 1, k, fs, 2, "a",
                                     strides, image_data_format)} :
            FinishBlock(body, ConvBlockOperands(body), args', 1, "done")
  /\ inputs' = 1
  /\ UNCHANGED <<image_data_format, filters, num_res_blocks,
                 alpha_initializer, gamma_initializer, stack, res_block,
                 model>>

NextBlocks == CallIdentityBlock \/ CallConvBlock

SpecBlocks == Init /\ [][NextBlocks]_vars

SpecBuilders == Init /\ [][NextEnsemble \/ NextResnet50]_vars

----------------------------------------------------------------------------
(* Properties of ensemble_resnet_v1, checked under SpecEnsemble.            *)

Called == pc # "idle"

LayerIds == 1..Len(layers)
EnsembleLayerIds ==
  {i \in LayerIds : layers[i].kind \in {"BatchEnsembleConv2D", "BatchEnsembleDense"}}
DropoutIds == {i \in LayerIds : layers[i].kind = "Dropout"}
AddIds == {i \in LayerIds : layers[i].kind = "Add"}

\* The convolution behind the tensor an ensemble_resnet_layer call returned
\* (its batch normalization, or the activation after it).
ConvBehind(t) ==
  IF layers[t].kind = "Activation"
    THEN layers[layers[t].inputs[1]].inputs[1]
    ELSE layers[t].inputs[1]

\* The tensor a layer consumes, looking through a dropout in front of it.
SourceOf(i) ==
  IF layers[layers[i].inputs[1]].kind = "Dropout"
    THEN layers[layers[i].inputs[1]].inputs[1]
    ELSE layers[i].inputs[1]

BlocksOfStack(s) == {i \in 1..Len(blocks) : blocks[i].stack = s}
LoopsFinished == Called /\ pc # "start" /\ pc # "stem" /\ stack = NumStacks

\* C1: a depth with (depth - 2) mod 6 # 0 makes ensemble_resnet_v1 raise
\* ValueError, and when it has raised no input, layer, tensor or
\* initializer has been created.
C1_DepthErrorBeforeAnyNode ==
  (Called /\ pc # "start" /\ (args.depth - 2) % 6 # 0) =>
    /\ pc = "error"
    /\ error = "ValueError: depth should be 6n+2"
    /\ layers = <<>>
    /\ inputs = 0
    /\ alpha_initializer = NoInitializer
    /\ gamma_initializer = NoInitializer
    /\ model = NoModel

C1_Witness ==
  /\ pc = "error"
  /\ args.depth = 9
  /\ layers = <<>>

\* C2 as stated: for every depth that passes the depth check, each of the
\* 3 stages holds exactly (depth - 2) / 6 residual blocks, each one add
\* followed by a relu.
C2_BlocksPerStageAsStated ==
  LoopsFinished =>
    /\ \A s \in 0..2 : Cardinality(BlocksOfStack(s)) = (args.depth - 2) \div 6
    /\ Cardinality(AddIds) = 3 * ((args.depth - 2) \div 6)

\* C2 amended: for every depth >= 2 that passes the depth check, each of
\* the 3 stages holds exactly (depth - 2) / 6 residual blocks, each one add
\* followed by a relu; for a negative depth that passes the check (-4) the
\* stages are empty.
C2_BlocksPerStage ==
  LoopsFinished =>
    LET n == IF args.depth >= 2 THEN (args.depth - 2) \div 6 ELSE 0
    IN  /\ \A s \in 0..2 : Cardinality(BlocksOfStack(s)) = n
        /\ \A i \in 1..Len(blocks) : blocks[i].stack \in 0..2
        /\ Cardinality(AddIds) = 3 * n
        /\ \A i \in 1..Len(blocks) :
             /\ blocks[i].add \in AddIds
             /\ layers[blocks[i].out].kind = "Activation"
             /\ layers[blocks[i].out].activation = "relu"
             /\ layers[blocks[i].out].inputs = <<blocks[i].add>>
        /\ \A i, j \in 1..Len(blocks) :
             blocks[i].add = blocks[j].add => i = j

C2_Witness ==
  /\ pc = "done"
  /\ args.depth = 20
  /\ Cardinality(AddIds) = 9
  /\ \A s \in 0..2 : Cardinality(BlocksOfStack(s)) = 3

Pow2(k) == IF k = 0 THEN 1 ELSE IF k = 1 THEN 2 ELSE 4

\* What C4 says of one residual block b of the log.
BlockAsSpecified(b) ==
  LET f == 16 * args.width_multiplier * Pow2(b.stack)
      first == b.stack \in {1, 2} /\ b.res_block = 0
      c1 == layers[ConvBehind(b.first)]
      c2 == layers[ConvBehind(b.y)]
  IN  /\ b.filters = f
      /\ c1.kind = "BatchEnsembleConv2D" /\ c2.kind = "BatchEnsembleConv2D"
      /\ c1.filters = f /\ c2.filters = f
      /\ SourceOf(ConvBehind(b.first)) = b.input
      /\ SourceOf(ConvBehind(b.y)) = b.first
      /\ c1.strides = IF first THEN <<2, 2>> ELSE <<1, 1>>
      /\ c2.strides = <<1, 1>>
      /\ layers[b.add].inputs = <<b.shortcut, b.y>>
      /\ IF first
           THEN /\ layers[b.shortcut].kind = "BatchNormalization"
                /\ layers[ConvBehind(b.shortcut)].kind = "BatchEnsembleConv2D"
                /\ layers[ConvBehind(b.shortcut)].kernel_size = <<1, 1>>
                /\ layers[ConvBehind(b.shortcut)].strides = <<2, 2>>
                /\ layers[ConvBehind(b.shortcut)].filters = f
                /\ SourceOf(ConvBehind(b.shortcut)) = b.input
           ELSE b.shortcut = b.input

\* C4: the stem is one ensemble layer with 16 * width_multiplier filters
\* and stride 1; stage k uses 16 * width_multiplier * 2^(k-1) filters;
\* exactly the first blocks of stages 2 and 3 use stride 2 in their first
\* convolution and a 1x1, stride-2, no-activation projection of the block's
\* input as the shortcut; every other block uses stride 1 and adds its
\* unmodified input.
C4_StemStagesAndShortcuts ==
  (Called /\ Len(layers) > 0) =>
    /\ layers[1].kind = "Input"
    /\ layers[2].kind = "BatchEnsembleConv2D"
    /\ layers[2].inputs = <<1>>
    /\ layers[2].filters = 16 * args.width_multiplier
    /\ layers[2].strides = <<1, 1>>
    /\ layers[3].kind = "BatchNormalization"
    /\ layers[4].kind = "Activation"
    /\ \A i \in 1..Len(blocks) : BlockAsSpecified(blocks[i])
    /\ \A i \in 1..Len(blocks) :
         blocks[i].input = IF i = 1 THEN 4 ELSE blocks[i - 1].out

C4_Witness ==
  /\ pc = "done"
  /\ args.width_multiplier = 2
  /\ args.depth = 14
  /\ Len(blocks) = 6
  /\ layers[ConvBehind(blocks[5].shortcut)].filters = 128
  /\ blocks[6].shortcut = blocks[5].out

\* The initializer C7 prescribes for random_sign_init = r.
PolicyOf(r) ==
  IF r > 0
    THEN [name |-> "RandomSign", probs |-> r, mean |-> 0, stddev |-> 0]
    ELSE [name |-> "RandomNormal", probs |-> 0, mean |-> 10, stddev |-> 0 - r]

\* C7: for every random_sign_init every ensemble layer gets the same
\* initializer for alpha and gamma: random sign with probability
\* random_sign_init if it is > 0, otherwise Normal(mean 1, stddev
\* -random_sign_init >= 0); layer composer and model builder agree.
C7_InitializerPolicy ==
  (Called /\ pc # "start" /\ error # "ValueError: depth should be 6n+2") =>
    /\ alpha_initializer = PolicyOf(args.random_sign_init)
    /\ gamma_initializer = PolicyOf(args.random_sign_init)
    /\ \A i \in EnsembleLayerIds :
         /\ layers[i].alpha_initializer = PolicyOf(args.random_sign_init)
         /\ layers[i].gamma_initializer = PolicyOf(args.random_sign_init)
         /\ layers[i].alpha_initializer.stddev >= 0
         /\ layers[i].alpha_initializer = alpha_initializer
         /\ layers[i].gamma_initializer = gamma_initializer

C7_Witness ==
  /\ pc = "done"
  /\ args.random_sign_init = 0
  /\ Len(blocks) = 3
  /\ layers[Len(layers)].kind = "BatchEnsembleDense"
  /\ layers[Len(layers)].alpha_initializer.name = "RandomNormal"
  /\ layers[2].gamma_initializer.name = "RandomNormal"

\* C8: with num_models = m every ensemble layer (stem, both convolutions
\* of every block, the projection shortcuts, the dense head) is created
\* with num_models = m.
C8_NumModelsEverywhere ==
  Called => \A i \in EnsembleLayerIds : layers[i].num_models = args.num_models

C8_Witness ==
  /\ pc = "done"
  /\ args.num_models = 4
  /\ args.depth = 8
  /\ Cardinality(EnsembleLayerIds) = 10
  /\ layers[ConvBehind(blocks[2].shortcut)].num_models = 4

\* C9: a dropout layer is inserted iff dropout_rate > 0, directly before
\* the ensemble convolution, always in training mode; with
\* dropout_rate > 0 there is one before every residual-block and
\* projection convolution and one before the dense head (after flatten),
\* none before the stem convolution; with dropout_rate <= 0 there is none.
C9_Dropout ==
  (Called /\ Len(layers) > 0) =>
    /\ \A i \in DropoutIds :
         /\ layers[i].training = TRUE
         /\ layers[i].rate = args.dropout_rate
         /\ i < Len(layers)
         /\ (i + 1) \in EnsembleLayerIds
         /\ layers[i + 1].inputs = <<i>>
         /\ layers[i + 1].kind = "BatchEnsembleDense"
              => layers[layers[i].inputs[1]].kind = "Flatten"
    /\ args.dropout_rate <= 0 => DropoutIds = {}
    /\ layers[layers[2].inputs[1]].kind = "Input"
    /\ args.dropout_rate > 0 =>
         \A i \in EnsembleLayerIds \ {2} :
           layers[layers[i].inputs[1]].kind = "Dropout"
    /\ \A i \in EnsembleLayerIds :
         layers[i].kind = "BatchEnsembleDense" =>
           layers[SourceOf(i)].kind = "Flatten"

C9_Witness ==
  /\ pc = "done"
  /\ args.dropout_rate > 0
  /\ args.depth = 14
  /\ Cardinality(DropoutIds) = 15
  /\ Cardinality(EnsembleLayerIds) = 16

C9_WitnessNoDropout ==
  /\ pc = "done"
  /\ args.dropout_rate < 0
  /\ args.depth = 14
  /\ DropoutIds = {}

----------------------------------------------------------------------------
(* Properties of resnet50, checked under SpecResnet50.                      *)

BlocksOfStage(st) == {i \in 1..Len(blocks) : blocks[i].stage = st}

\* The Conv2D layers of the block logged as b, by the branch they name.
BranchConvs(b, branch) ==
  {i \in LayerIds :
     /\ layers[i].kind = "Conv2D"
     /\ Len(layers[i].name) = 5
     /\ layers[i].name[2] = b.stage
     /\ layers[i].name[3] = b.block
     /\ layers[i].name[5] = branch}

\* C3: the four residual stages of resnet50 hold 3, 4, 6 and 3 blocks;
\* the first block of each stage is a conv_block and the others are
\* identity_blocks; the conv_block of stage 2 uses stride 1 and those of
\* stages 3 to 5 stride 2; the output has shape (batch, num_classes).
C3_Resnet50Stages ==
  pc = "done" =>
    /\ Cardinality(BlocksOfStage(2)) = 3
    /\ Cardinality(BlocksOfStage(3)) = 4
    /\ Cardinality(BlocksOfStage(4)) = 6
    /\ Cardinality(BlocksOfStage(5)) = 3
    /\ Len(blocks) = 16
    /\ Cardinality(AddIds) = 16
    /\ \A i \in 1..Len(blocks) :
         LET b == blocks[i]
             first == i = 1 \/ blocks[i - 1].stage # b.stage
         IN  /\ i > 1 => blocks[i - 1].stage <= b.stage
             /\ b.add \in AddIds
             /\ layers[b.add].inputs = <<b.y, b.shortcut>>
             /\ b.input = IF i = 1 THEN 6 ELSE blocks[i - 1].out
             /\ IF first
                  THEN /\ b.fn = "conv_block"
                       /\ Cardinality(BranchConvs(b, "1")) = 1
                       /\ b.shortcut # b.input
                       /\ layers[b.shortcut].kind = "BatchNormalization"
                       /\ layers[b.shortcut].inputs[1] \in BranchConvs(b, "1")
                       /\ \A c \in BranchConvs(b, "1") \cup BranchConvs(b, "2b") :
                            /\ layers[c].strides =
                                 IF b.stage = 2 THEN <<1, 1>> ELSE <<2, 2>>
                            /\ c \in BranchConvs(b, "1") => layers[c].inputs = <<b.input>>
                  ELSE /\ b.fn = "identity_block"
                       /\ BranchConvs(b, "1") = {}
                       /\ b.shortcut = b.input
    /\ layers[model.outputs].shape = <<args.num_classes>>
    /\ model.outputs = Len(layers)
    /\ model.inputs = 1

C3_Witness ==
  /\ pc = "done"
  /\ args.num_classes = 1000
  /\ layers[model.outputs].shape = <<1000>>
  /\ Len(blocks) = 16

----------------------------------------------------------------------------
(* The shape invariant of both builders, checked under SpecBuilders.        *)

\* C10: at every residual add the two operands have the same shape; in
\* ensemble_resnet_v1 for every accepted depth, width multiplier and
\* input height and width, odd sizes included; in resnet50 every
\* identity_block receives an input whose channel count equals its
\* filters3, and in every conv_block main path and projected shortcut
\* have equal shape.
C10_AddOperandsSameShape ==
  /\ error # "ValueError: add of incompatible shapes"
  /\ \A i \in AddIds :
       /\ layers[layers[i].inputs[1]].shape = layers[layers[i].inputs[2]].shape
       /\ layers[i].shape = layers[layers[i].inputs[1]].shape
  /\ \A i \in 1..Len(blocks) :
       /\ blocks[i].add \in AddIds
       /\ blocks[i].fn = "identity_block" =>
            Channels(layers[blocks[i].input].shape, image_data_format)
              = blocks[i].filters[3]

C10_Witness ==
  /\ args.fn = "ensemble_resnet_v1"
  /\ Height(args.input_shape, image_data_format) = 31
  /\ Width(args.input_shape, image_data_format) = 32
  /\ args.width_multiplier = 2
  /\ Len(blocks) = 9
  /\ pc = "done"
  /\ Height(layers[blocks[4].add].shape, image_data_format) = 16
  /\ Height(layers[blocks[7].add].shape, image_data_format) = 8

C10_WitnessResnet50 ==
  /\ args.fn = "resnet50"
  /\ pc = "done"
  /\ layers[blocks[16].add].shape
       = ImageShape(7, 7, 2048, image_data_format)

----------------------------------------------------------------------------
(* Properties of identity_block and conv_block, checked under SpecBlocks.   *)

Returned(fn) == pc = "done" /\ args.fn = fn

\* C5 as stated: whenever identity_block returns a tensor, its shape
\* equals the shape of the input tensor.
C5_IdentityShapeAsStated ==
  Returned("identity_block") => layers[x].shape = args.input_shape

\* C5 amended: whenever identity_block returns a tensor, its height and
\* width equal the input's, all three convolutions have stride 1 (the
\* middle one with 'same' padding), the result is relu(main_path + input),
\* and its channel count equals the input's unless the input has exactly
\* 1 channel: then the add broadcasts the input and the result has
\* filters3 channels.
C5_IdentityShape ==
  Returned("identity_block") =>
    /\ Height(layers[x].shape, image_data_format)
         = Height(args.input_shape, image_data_format)
    /\ Width(layers[x].shape, image_data_format)
         = Width(args.input_shape, image_data_format)
    /\ Channels(layers[x].shape, image_data_format)
         = IF Channels(args.input_shape, image_data_format) = 1
             THEN args.filters[3]
             ELSE Channels(args.input_shape, image_data_format)
    /\ Channels(args.input_shape, image_data_format) # 1
         => layers[x].shape = args.input_shape
    /\ \A i \in LayerIds : layers[i].kind = "Conv2D" =>
         /\ layers[i].strides = <<1, 1>>
         /\ layers[i].name[5] = "2b" => layers[i].padding = "same"
    /\ Cardinality({i \in LayerIds : layers[i].kind = "Conv2D"}) = 3
    /\ layers[x].kind = "Activation" /\ layers[x].activation = "relu"
    /\ layers[layers[x].inputs[1]].kind = "Add"
    /\ layers[layers[x].inputs[1]].inputs = <<Len(layers) - 2, 1>>
    /\ layers[1].kind = "Input"

C5_Witness ==
  /\ Returned("identity_block")
  /\ args.input_shape = ImageShape(3, 2, 2, image_data_format)
  /\ args.filters = <<1, 2, 2>>
  /\ args.kernel_size = 3
  /\ layers[x].shape = args.input_shape

C5_WitnessBroadcast ==
  /\ Returned("identity_block")
  /\ args.input_shape = ImageShape(3, 2, 1, image_data_format)
  /\ args.filters[3] = 2
  /\ layers[x].shape = ImageShape(3, 2, 2, image_data_format)

\* C6: conv_block with strides (2, 2) on an input of even height and
\* width returns a tensor of half the height and width and filters3
\* channels, whatever the input's channel count; the stride is applied at
\* the middle convolution and at the 1x1 projection shortcut, not at the
\* first 1x1 convolution.
C6_ConvBlockHalves ==
  (Called /\ args.fn = "conv_block" /\ args.strides = <<2, 2>>
     /\ Height(args.input_shape, image_data_format) % 2 = 0
     /\ Width(args.input_shape, image_data_format) % 2 = 0) =>
    /\ pc = "done"
    /\ 2 * Height(layers[x].shape, image_data_format)
         = Height(args.input_shape, image_data_format)
    /\ 2 * Width(layers[x].shape, image_data_format)
         = Width(args.input_shape, image_data_format)
    /\ Channels(layers[x].shape, image_data_format) = args.filters[3]
    /\ \A i \in LayerIds : layers[i].kind = "Conv2D" =>
         layers[i].strides =
           IF layers[i].name[5] \in {"2b", "1"} THEN <<2, 2>> ELSE <<1, 1>>
    /\ \E i \in LayerIds :
         /\ layers[i].kind = "Conv2D" /\ layers[i].name[5] = "2b"
         /\ layers[i].kernel_size = Pair(args.kernel_size)
    /\ \E i \in LayerIds :
         /\ layers[i].kind = "Conv2D" /\ layers[i].name[5] = "1"
         /\ layers[i].kernel_size = <<1, 1>>
         /\ layers[i].inputs = <<1>>
    /\ layers[layers[x].inputs[1]].kind = "Add"

C6_Witness ==
  /\ Returned("conv_block")
  /\ args.strides = <<2, 2>>
  /\ args.input_shape = ImageShape(4, 2, 1, image_data_format)
  /\ args.filters = <<1, 1, 2>>
  /\ layers[x].shape = ImageShape(2, 1, 2, image_data_format)

====
